---- MODULE Spec2Model ----
(***************************************************************************)
(* Model of the two encoding notebooks of dalle-mini:                      *)
(*   dev/encoding/vqgan-jax-encoding-streaming.ipynb                       *)
(*   dev/encoding/vqgan-jax-encoding-webdataset.ipynb                      *)
(* Strings are sequences of one-character strings.                         *)
(***************************************************************************)
EXTENDS Integers, Sequences, FiniteSets, TLC

(***************************************************************************)
(* Bounds of the model.                                                    *)
(***************************************************************************)
MaxStrLen == 3
MaxTokLen == 3
MaxItems == 5
MaxSaveEvery == 2
MaxBatchSize == 2
MaxDevices == 2

(***************************************************************************)
(* Generic helpers on sequences.                                           *)
(***************************************************************************)
SeqsUpTo(S, k) == UNION {[1..m -> S] : m \in 0..k}

Range(s) == {s[i] : i \in 1..Len(s)}

RECURSIVE Flatten(_)
Flatten(ss) == IF ss = <<>> THEN <<>> ELSE Head(ss) \o Flatten(Tail(ss))

(***************************************************************************)
(* Caption preparation (create_caption in both notebooks).                 *)
(***************************************************************************)
\* characters removed by str.strip()
Whitespace == {" ", "\t", "\n"}

\* title[-1] not in '.!?'
SentenceEnd == {".", "!", "?"}

RECURSIVE lstrip(_)
lstrip(s) == IF s # <<>> /\ Head(s) \in Whitespace THEN lstrip(Tail(s)) ELSE s

RECURSIVE rstrip(_)
rstrip(s) ==
    IF s # <<>> /\ s[Len(s)] \in Whitespace
    THEN rstrip(SubSeq(s, 1, Len(s) - 1))
    ELSE s

strip(s) == rstrip(lstrip(s))

\* create_caption without the test of the last character
create_caption_always_dot(title, description) ==
    LET t == strip(title)
        d == strip(description)
        t2 == IF Len(t) > 0 THEN t \o <<".">> ELSE t
    IN  t2 \o <<" ">> \o d

\* streaming notebook: create_caption(title, description)
create_caption(title, description) ==
    LET t == strip(title)
        d == strip(description)
        t2 == IF Len(t) > 0 /\ t[Len(t)] \notin SentenceEnd THEN t \o <<".">> ELSE t
    IN  t2 \o <<" ">> \o d

\* webdataset notebook: create_caption(item), item is the json structure
create_caption_item(item) ==
    LET t == strip(item.title_clean)
        d == strip(item.description_clean)
        t2 == IF Len(t) > 0 /\ t[Len(t)] \notin SentenceEnd THEN t \o <<".">> ELSE t
    IN  t2 \o <<" ">> \o d

(***************************************************************************)
(* Token serialisation: np.array2string(item, separator=',',               *)
(* max_line_width=50000, formatter={'int': lambda x: str(x)}).             *)
(***************************************************************************)
\* center_crop(image, max_size=256)
ImageSize == 256
\* VQModel.from_pretrained("flax-community/vqgan_f16_16384"): patch factor 16
PatchFactor == 16
\* ... and a codebook of 16384 entries
CodebookSize == 16384
\* tokens of one image: (resolution / patch factor) squared
TokenLength == (ImageSize \div PatchFactor) * (ImageSize \div PatchFactor)

max_line_width == 50000
\* numpy print options left at their defaults by the call
threshold == 1000
edgeitems == 3

Digit == <<"0", "1", "2", "3", "4", "5", "6", "7", "8", "9">>

\* formatter {'int': lambda x: str(x)} on a non-negative integer
RECURSIVE str(_)
str(x) == IF x < 10 THEN <<Digit[x + 1]>> ELSE str(x \div 10) \o <<Digit[(x % 10) + 1]>>

separator == <<",">>

summary_insert == <<".", ".", ".">>

\* the words lo..hi, each followed by the separator
RECURSIVE JoinWords(_, _, _)
JoinWords(words, lo, hi) ==
    IF lo > hi THEN <<>>
    ELSE IF lo = hi THEN words[lo] \o separator
    ELSE LET mid == (lo + hi) \div 2
         IN  JoinWords(words, lo, mid) \o JoinWords(words, mid + 1, hi)

\* numpy _extendLine, needs_wrap: the line that starts with word a, already
\* holding the words a..j-1 and their separators, does not take word j;
\* a line holding no more than its prefix is never wrapped
needs_wrap(words, a, j, line_width, next_line_prefix) ==
    /\ j > a
    /\ Len(next_line_prefix) + Len(JoinWords(words, a, j - 1)) + Len(words[j]) > line_width

\* numpy _formatArray, last axis, from word a on: the loop extends the line
\* word by word (each word but the last of all followed by the separator);
\* a word that needs a wrap ends the line (rstrip, newline) and starts the
\* next one after the prefix
RECURSIVE formatLine(_, _, _, _)
formatLine(words, a, elem_width, hanging_indent) ==
    LET b == CHOOSE j \in a..Len(words) :
                 /\ ~needs_wrap(words, a, j, elem_width, hanging_indent)
                 /\ j = Len(words) \/ needs_wrap(words, a, j + 1, elem_width, hanging_indent)
    IN  IF b = Len(words)
        THEN hanging_indent \o JoinWords(words, a, b - 1) \o words[b]
        ELSE rstrip(hanging_indent \o JoinWords(words, a, b)) \o <<"\n">>
             \o formatLine(words, b + 1, elem_width, hanging_indent)

\* the words of a 1-d array: all elements, or the edge items around "..."
arrayWords(a, thr, edge) ==
    IF Len(a) > thr /\ 2 * edge < Len(a)
    THEN [i \in 1..edge |-> str(a[i])] \o <<summary_insert>>
         \o [i \in 1..edge |-> str(a[Len(a) - edge + i])]
    ELSE [i \in 1..Len(a) |-> str(a[i])]

array2string_with(a, thr, edge, width) ==
    IF Len(a) = 0
    THEN <<"[", "]">>
    ELSE LET hanging_indent == <<" ">>
             elem_width == width - 1
             s == formatLine(arrayWords(a, thr, edge), 1, elem_width, hanging_indent)
         IN  <<"[">> \o SubSeq(s, Len(hanging_indent) + 1, Len(s)) \o <<"]">>

\* array2string under a print threshold below the token length
array2string_summarized(a) == array2string_with(a, 100, edgeitems, max_line_width)

\* line 480 of the streaming notebook, line 395 of the webdataset notebook
array2string(a) == array2string_with(a, threshold, edgeitems, max_line_width)

(***************************************************************************)
(* Reading an `encoding` string back: a bracketed, comma-separated list of *)
(* decimal integers (white space between the items is ignored).            *)
(***************************************************************************)
DigitValue(c) == CHOOSE d \in 0..9 : Digit[d + 1] = c

IsDigit(c) == \E d \in 0..9 : Digit[d + 1] = c

RECURSIVE parse_int(_, _)
parse_int(s, acc) ==
    IF s = <<>> THEN acc ELSE parse_int(Tail(s), 10 * acc + DigitValue(Head(s)))

\* the text of item k (1-based) of body, whose commas stand at the positions cs
ItemText(body, cs, k) ==
    LET from == IF k = 1 THEN 1 ELSE cs[k - 1] + 1
        to == IF k = Len(cs) + 1 THEN Len(body) ELSE cs[k] - 1
    IN  strip(SubSeq(body, from, to))

\* the positions of the character c in s, in increasing order
PositionsOf(s, c) == SelectSeq([i \in 1..Len(s) |-> i], LAMBDA i : s[i] = c)

\* [ok |-> whether the text is a well-formed list, value |-> the integers]
parse_encoding(text) ==
    IF Len(text) < 2 \/ text[1] # "[" \/ text[Len(text)] # "]"
    THEN [ok |-> FALSE, value |-> <<>>]
    ELSE LET body == SubSeq(text, 2, Len(text) - 1)
             cs == PositionsOf(body, ",")
             items == [k \in 1..(Len(cs) + 1) |-> ItemText(body, cs, k)]
         IN  IF strip(body) = <<>>
             THEN [ok |-> TRUE, value |-> <<>>]
             ELSE IF \A k \in 1..Len(items) :
                        items[k] # <<>> /\ \A j \in 1..Len(items[k]) : IsDigit(items[k][j])
                  THEN [ok |-> TRUE, value |-> [k \in 1..Len(items) |-> parse_int(items[k], 0)]]
                  ELSE [ok |-> FALSE, value |-> <<>>]

(***************************************************************************)
(* Split file names: f'split_{split_num:05x}.jsonl'.                       *)
(***************************************************************************)
HexDigit == <<"0", "1", "2", "3", "4", "5", "6", "7", "8", "9", "a", "b", "c", "d", "e", "f">>

RECURSIVE hex(_)
hex(x) == IF x < 16 THEN <<HexDigit[x + 1]>> ELSE hex(x \div 16) \o <<HexDigit[(x % 16) + 1]>>

RECURSIVE zfill(_, _)
zfill(s, width) == IF Len(s) >= width THEN s ELSE zfill(<<"0">> \o s, width)

split_name(split_num) == <<"split_">> \o zfill(hex(split_num), 5) \o <<".jsonl">>

(***************************************************************************)
(* State.                                                                  *)
(***************************************************************************)
VARIABLES
    notebook,      \* "streaming" or "webdataset": which notebook runs
    save_every,    \* argument of encode_captioned_dataset
    batch_size,    \* per device
    device_count,  \* jax.device_count()
    output_dir,    \* TRUE when the output directory exists
    source,        \* per loader worker, the keys of the items of its shards
    upstream,      \* per loader worker, the keys of the items it has not read yet
    live,          \* loader workers whose iterator has not raised StopIteration
    turn,          \* loader worker that produces the next batch
    cur,           \* prepared items of the batch being assembled
    batch,         \* the batch bound by the for statement
    n,             \* the enumerate counter of the for statement
    encoded,       \* token sequences of `batch`, after reshape
    file,          \* local `file`: 0 is None, else an index into handles
    handles,       \* every file object created by open(), in order
    fs,            \* the output directory: file name -> records on disk
    pc,            \* position of the run
    cause,         \* the stage whose exception ended the run ("" if none)
    delivered,     \* history: the keys of every batch the loader yielded
    skipped,       \* history: the keys dropped by the loader's handler
    arg,           \* input of a function under test
    res            \* results of a function under test

runvars == <<notebook, save_every, batch_size, device_count, output_dir, source, upstream, live, turn,
             cur, batch, n, encoded, file, handles, fs, pc, cause, delivered, skipped>>

vars == <<notebook, save_every, batch_size, device_count, output_dir, source, upstream, live, turn,
          cur, batch, n, encoded, file, handles, fs, pc, cause, delivered, skipped, arg, res>>

(***************************************************************************)
(* The data source and the per-item transformations.                       *)
(***************************************************************************)
\* loader worker processes: DataLoader(..., num_workers=num_workers) in the
\* webdataset notebook (8 there), none in the streaming notebook
MaxWorkers == 2

Workers(nb) == IF nb = "webdataset" THEN 1..MaxWorkers ELSE {1}

\* text fields of the item with key k
TitleOf(k) ==
    CASE k % 4 = 1 -> <<"a">>
      [] k % 4 = 2 -> <<"b", "!">>
      [] k % 4 = 3 -> <<" ", "c", " ">>
      [] OTHER -> <<>>

DescriptionOf(k) == IF k % 2 = 1 THEN <<"d", " ">> ELSE <<>>

Item(k) == [key |-> k, title_clean |-> TitleOf(k), description_clean |-> DescriptionOf(k)]

\* streaming notebook: prepare_item (the image stays with the key)
prepare_item(item) ==
    [key |-> item.key, caption |-> create_caption(item.title_clean, item.description_clean)]

\* webdataset notebook: .map_dict(jpg=preprocess_image, json=create_caption)
\* .to_tuple('__key__', 'jpg', 'json')
map_dict_to_tuple(item) == [key |-> item.key, caption |-> create_caption_item(item)]

Prepare(nb, k) == IF nb = "webdataset" THEN map_dict_to_tuple(Item(k)) ELSE prepare_item(Item(k))

\* a reader without handler
ReadErrorsIgnored_never(nb) == FALSE

\* wds.WebDataset(shards, ..., handler=exception_handler): only the reader is
\* given the handler; the streaming notebook installs none
ReadErrorsIgnored(nb) == nb = "webdataset"

\* .decode('pil') and .map_dict(...) are called without handler=, dataset.map
\* has none: an exception in them propagates
TransformErrorsIgnored(nb) == FALSE

\* size of the batches the loader builds:  batch_size * jax.device_count()
bs == batch_size * device_count

\* the worker after w, in cyclic order, that is still live (w if none is)
NextLive(w, lv, nb) ==
    LET W == Cardinality(Workers(nb))
        cand == {d \in 1..W : (((w - 1 + d) % W) + 1) \in lv}
    IN  IF cand = {} THEN w
        ELSE LET d == CHOOSE x \in cand : \A y \in cand : x <= y
             IN  ((w - 1 + d) % W) + 1

(***************************************************************************)
(* Token Encoder: shard, pmap(encode), reshape.                            *)
(***************************************************************************)
\* the pretrained model on one image (identified by its key): an opaque
\* function to sequences of codebook indices
model_encode(key) == <<key, CodebookSize - key>>

\* flax shard(): reshape to (device_count, -1, ...); defined only when the
\* batch divides evenly
CanShard(xs, D) == Len(xs) % D = 0

shard(xs, D) ==
    LET m == Len(xs) \div D
    IN  [d \in 1..D |-> SubSeq(xs, (d - 1) * m + 1, d * m)]

\* @partial(jax.pmap, axis_name="batch") def encode(batch)
encode(shards) ==
    [d \in 1..Len(shards) |-> [i \in 1..Len(shards[d]) |-> model_encode(shards[d][i].key)]]

\* encoded.reshape(-1, encoded.shape[-1])
reshape(enc) == Flatten(enc)

(***************************************************************************)
(* Files.  A file object buffers what is written to it; the data reaches   *)
(* the disk when the buffer grows past the chunk size and when the file is *)
(* closed.  io is the pair [handles, fs].                                  *)
(***************************************************************************)
\* records a file object holds back before it writes them out
ChunkRecords == 1

\* an open that makes the file object and leaves the creation of the file
\* to the first flush
FileOpen_nocreate(io, name) ==
    [handles |-> Append(io.handles, [name |-> name, open |-> TRUE, pending |-> <<>>]),
     fs |-> io.fs]

\* open(name, 'w'): creates or truncates the file
FileOpen(io, name) ==
    [handles |-> Append(io.handles, [name |-> name, open |-> TRUE, pending |-> <<>>]),
     fs |-> [x \in (DOMAIN io.fs) \cup {name} |-> IF x = name THEN <<>> ELSE io.fs[x]]]

\* a flush in place of the close: the file object stays open
FileClose_flushonly(io, h) ==
    [handles |-> [io.handles EXCEPT ![h].pending = <<>>],
     fs |-> [io.fs EXCEPT ![io.handles[h].name] = @ \o io.handles[h].pending]]

\* a close that releases the file object and drops what it still buffers
FileClose_unflushed(io, h) ==
    [handles |-> [io.handles EXCEPT ![h] = [@ EXCEPT !.open = FALSE, !.pending = <<>>]],
     fs |-> io.fs]

\* file.close(): flush, then release
FileClose(io, h) ==
    IF ~io.handles[h].open THEN io
    ELSE [handles |-> [io.handles EXCEPT ![h] = [@ EXCEPT !.open = FALSE, !.pending = <<>>]],
          fs |-> [io.fs EXCEPT ![io.handles[h].name] = @ \o io.handles[h].pending]]

\* file.write(data)
FileWrite(io, h, data) ==
    LET p == io.handles[h].pending \o data
    IN  IF Len(p) > ChunkRecords
        THEN [handles |-> [io.handles EXCEPT ![h].pending = <<>>],
              fs |-> [io.fs EXCEPT ![io.handles[h].name] = @ \o p]]
        ELSE [handles |-> [io.handles EXCEPT ![h].pending = p], fs |-> io.fs]

\* the rows of a batch, last row first
Records_reversed(keys, captions, encoded_as_string) ==
    [i \in 1..Len(keys) |->
        [key |-> keys[Len(keys) + 1 - i], caption |-> captions[Len(keys) + 1 - i],
         encoding |-> encoded_as_string[Len(keys) + 1 - i]]]

\* pd.DataFrame.from_dict({"key": keys, "caption": captions, "encoding": ...})
\* and to_json(orient='records', lines=True): one record per row, in row order
Records(keys, captions, encoded_as_string) ==
    [i \in 1..Len(keys) |->
        [key |-> keys[i], caption |-> captions[i], encoding |-> encoded_as_string[i]]]

\* a rotation decided by the size of the batch at hand
NeedsRotation_bysize(k, se) == k = 0 \/ Len(batch) >= 2

\* a rotation at every batch
NeedsRotation_always(k, se) == TRUE

\* if (n % save_every == 0)
NeedsRotation(k, se) == k % se = 0

\* a split index counted from one-based batch numbers
SplitNum_onebased(k, se) == (k + 1) \div se

\* split_num = n // save_every
SplitNum(k, se) == k \div se

\* a rotation that leaves the current file open
CloseCurrent_skipped(io, h) == io

\* if file is not None: file.close()
CloseCurrent(io, h) == IF h # 0 THEN FileClose(io, h) ELSE io

\* the function returns: its frame is released and with it the last
\* reference to the file object, which is then flushed and closed
ReleaseFrame(io, h) == IF h = 0 THEN io ELSE FileClose(io, h)

\* an exception leaves the function: the traceback keeps the frame, and the
\* file object bound to `file` stays as it is
KeepFrame(io, h) == io

\* there is no try/except around open(), encode() or to_json(): the
\* exception ends the run
AfterOpenError == "failed"

AfterEncodeError == "failed"

\* a writer that drops the failing batch and goes on with the next one
AfterWriteError_continue == "fetch"

AfterWriteError == "failed"

(***************************************************************************)
(* Initial states: a configuration and a data source.                      *)
(***************************************************************************)
RECURSIVE SumTo(_, _)
SumTo(cnt, w) == IF w = 0 THEN 0 ELSE cnt[w] + SumTo(cnt, w - 1)

\* worker w reads its own shards: cnt[w] items, keys numbered across the workers
Shards(cnt) == [w \in DOMAIN cnt |-> [i \in 1..cnt[w] |-> SumTo(cnt, w - 1) + i]]

PureIdle == arg = <<>> /\ res = <<>>

Init ==
    /\ notebook \in {"streaming", "webdataset"}
    /\ save_every \in 1..MaxSaveEvery
    /\ batch_size \in 1..MaxBatchSize
    /\ device_count \in 1..MaxDevices
    /\ output_dir \in BOOLEAN
    /\ \E cnt \in [Workers(notebook) -> 0..MaxItems] :
          /\ SumTo(cnt, Cardinality(Workers(notebook))) <= MaxItems
          /\ source = Shards(cnt)
    /\ upstream = source
    /\ live = Workers(notebook)
    /\ turn = 1
    /\ cur = <<>>
    /\ batch = <<>>
    /\ n = 0
    /\ encoded = <<>>
    /\ file = 0
    /\ handles = <<>>
    /\ fs = <<>>
    /\ pc = "start"
    /\ cause = ""
    /\ delivered = <<>>
    /\ skipped = {}
    /\ PureIdle

(***************************************************************************)
(* encode_captioned_dataset, statement by statement.                       *)
(***************************************************************************)
Config == <<notebook, save_every, batch_size, device_count, source>>

IO == [handles |-> handles, fs |-> fs]

SetIO(io) == handles' = io.handles /\ fs' = io.fs

KeysOf(b) == [i \in 1..Len(b) |-> b[i].key]

CaptionsOf(b) == [i \in 1..Len(b) |-> b[i].caption]

\* an exception that is noted and after which the loop goes on
Abort_continue(stage, next) ==
    /\ pc' = "fetch"
    /\ cause' = stage
    /\ SetIO(KeepFrame(IO, file))

\* an exception propagates out of the function
Abort(stage, next) ==
    /\ pc' = next
    /\ cause' = stage
    /\ SetIO(KeepFrame(IO, file))

\* a start that also opens the first split file, before any batch
Mkdir_eager ==
    /\ pc = "start"
    /\ output_dir' = TRUE
    /\ SetIO(FileOpen(IO, split_name(0)))
    /\ file' = Len(handles) + 1
    /\ pc' = "fetch"
    /\ UNCHANGED <<Config, upstream, live, turn, cur, batch, n, encoded,
                   cause, delivered, skipped, arg, res>>

\* output_dir.mkdir(parents=True, exist_ok=True)
Mkdir ==
    /\ pc = "start"
    /\ output_dir' = TRUE
    /\ pc' = "fetch"
    /\ UNCHANGED <<Config, upstream, live, turn, cur, batch, n, encoded, file, handles, fs,
                   cause, delivered, skipped, arg, res>>

\* the loader yields batch b: the for statement binds it
Deliver(b, lv) ==
    /\ batch' = b
    /\ cur' = <<>>
    /\ delivered' = Append(delivered, KeysOf(b))
    /\ turn' = NextLive(turn, lv, notebook)
    /\ pc' = "rotate"

\* the loader drops the item it was reading and goes on
Skip ==
    /\ skipped' = skipped \cup {Head(upstream[turn])}
    /\ upstream' = [upstream EXCEPT ![turn] = Tail(@)]
    /\ UNCHANGED <<live, turn, cur, batch, handles, fs, pc, cause, delivered>>

\* the loader reads and prepares one more item of the batch
LoadOk ==
    /\ pc = "fetch" /\ turn \in live /\ upstream[turn] # <<>>
    /\ LET c2 == Append(cur, Prepare(notebook, Head(upstream[turn])))
       IN  IF Len(c2) = bs
           THEN Deliver(c2, live)
           ELSE cur' = c2 /\ UNCHANGED <<batch, delivered, turn, pc>>
    /\ upstream' = [upstream EXCEPT ![turn] = Tail(@)]
    /\ UNCHANGED <<Config, output_dir, live, n, encoded, file, handles, fs, cause, skipped,
                   arg, res>>

\* reading an item fails (download disconnected, broken archive entry)
LoadReadError ==
    /\ pc = "fetch" /\ turn \in live /\ upstream[turn] # <<>>
    /\ IF ReadErrorsIgnored(notebook)
       THEN Skip
       ELSE Abort("read", "failed") /\ UNCHANGED <<upstream, live, turn, cur, batch, delivered,
                                                    skipped>>
    /\ UNCHANGED <<Config, output_dir, n, encoded, file, arg, res>>

\* decoding or transforming an item fails (image decode, preprocess_image,
\* create_caption)
LoadTransformError ==
    /\ pc = "fetch" /\ turn \in live /\ upstream[turn] # <<>>
    /\ IF TransformErrorsIgnored(notebook)
       THEN Skip
       ELSE Abort("transform", "failed") /\ UNCHANGED <<upstream, live, turn, cur, batch,
                                                         delivered, skipped>>
    /\ UNCHANGED <<Config, output_dir, n, encoded, file, arg, res>>

\* the worker's source is exhausted: it yields its partial batch, if any
WorkerExhausted ==
    /\ pc = "fetch" /\ turn \in live /\ upstream[turn] = <<>>
    /\ live' = live \ {turn}
    /\ IF cur # <<>>
       THEN Deliver(cur, live')
       ELSE turn' = NextLive(turn, live', notebook) /\ UNCHANGED <<cur, batch, delivered, pc>>
    /\ UNCHANGED <<Config, output_dir, upstream, n, encoded, file, handles, fs, cause, skipped,
                   arg, res>>

\* every worker is exhausted: the for statement ends and the function returns
StopIteration ==
    /\ pc = "fetch" /\ live = {}
    /\ pc' = "done"
    /\ SetIO(ReleaseFrame(IO, file))
    /\ UNCHANGED <<Config, output_dir, upstream, live, turn, cur, batch, n, encoded, file,
                   cause, delivered, skipped, arg, res>>

\* if (n % save_every == 0): close the current file, then go on to open()
Rotate ==
    /\ pc = "rotate"
    /\ IF NeedsRotation(n, save_every)
       THEN /\ SetIO(CloseCurrent(IO, file))
            /\ pc' = "open"
       ELSE /\ UNCHANGED <<handles, fs>>
            /\ pc' = "encode"
    /\ UNCHANGED <<Config, output_dir, upstream, live, turn, cur, batch, n, encoded, file,
                   cause, delivered, skipped, arg, res>>

\* split_num = n // save_every; file = open(output_dir/f'split_{split_num:05x}.jsonl', 'w')
Open ==
    /\ pc = "open"
    /\ SetIO(FileOpen(IO, split_name(SplitNum(n, save_every))))
    /\ file' = Len(handles) + 1
    /\ pc' = "encode"
    /\ UNCHANGED <<Config, output_dir, upstream, live, turn, cur, batch, n, encoded, cause,
                   delivered, skipped, arg, res>>

\* open() raises (permission, disk full)
OpenError ==
    /\ pc = "open"
    /\ Abort("open", AfterOpenError)
    /\ UNCHANGED <<Config, output_dir, upstream, live, turn, cur, batch, n, encoded, file,
                   delivered, skipped, arg, res>>

\* images = shard(images.squeeze()); encoded = encode(images);
\* encoded = encoded.reshape(-1, encoded.shape[-1])
\* (squeeze() drops the batch axis of a one-item batch; what the model call
\* makes of the image then is the library's affair: it returns the item's
\* tokens, here, or it raises, in EncodeError)
Encode ==
    /\ pc = "encode"
    /\ CanShard(batch, device_count)
    /\ encoded' = reshape(encode(shard(batch, device_count)))
    /\ pc' = "write"
    /\ UNCHANGED <<Config, output_dir, upstream, live, turn, cur, batch, n, file, handles, fs,
                   cause, delivered, skipped, arg, res>>

\* shard() cannot split the batch over the devices, or the model call fails
EncodeError ==
    /\ pc = "encode"
    /\ Abort("encode", AfterEncodeError)
    /\ UNCHANGED <<Config, output_dir, upstream, live, turn, cur, batch, n, encoded, file,
                   delivered, skipped, arg, res>>

\* encoded_as_string = ...; batch_df = ...; batch_df.to_json(file, orient='records', lines=True)
Write ==
    /\ pc = "write"
    /\ Len(encoded) = Len(batch)
    /\ LET encoded_as_string == [i \in 1..Len(encoded) |-> array2string(encoded[i])]
       IN  SetIO(FileWrite(IO, file, Records(KeysOf(batch), CaptionsOf(batch),
                                             encoded_as_string)))
    /\ n' = n + 1
    /\ pc' = "fetch"
    /\ UNCHANGED <<Config, output_dir, upstream, live, turn, cur, batch, encoded, file, cause,
                   delivered, skipped, arg, res>>

\* to_json raises (disk full, permission)
WriteError ==
    /\ pc = "write"
    /\ Abort("write", AfterWriteError)
    /\ n' = IF AfterWriteError = "failed" THEN n ELSE n + 1
    /\ UNCHANGED <<Config, output_dir, upstream, live, turn, cur, batch, encoded, file,
                   delivered, skipped, arg, res>>

Next ==
    \/ Mkdir
    \/ LoadOk
    \/ LoadReadError
    \/ LoadTransformError
    \/ WorkerExhausted
    \/ StopIteration
    \/ Rotate
    \/ Open
    \/ OpenError
    \/ Encode
    \/ EncodeError
    \/ Write
    \/ WriteError

Spec == Init /\ [][Next]_vars

(***************************************************************************)
(* Properties of the run.                                                  *)
(***************************************************************************)
Min(a, b) == IF a <= b THEN a ELSE b

IsPrefix(a, b) == Len(a) <= Len(b) /\ a = SubSeq(b, 1, Len(a))

KeysIn(recs) == [i \in 1..Len(recs) |-> recs[i].key]

\* what a reader of the file object h sees: the disk, then the buffer
Visible(h) == fs[handles[h].name] \o handles[h].pending

\* the record the run is to write for the item with key k
ExpectedRecord(k) ==
    [key |-> k, caption |-> Prepare(notebook, k).caption,
     encoding |-> array2string(model_encode(k))]

ExpectedRecords(keys) == [i \in 1..Len(keys) |-> ExpectedRecord(keys[i])]

\* keys of the batches number lo+1 .. hi (one-based positions in delivered)
BatchKeys(lo, hi) == Flatten(SubSeq(delivered, lo + 1, hi))

\* number of split files a run of k batches creates
SplitCount(k) == (k + save_every - 1) \div save_every

\* the split files exist under the names of the indices 0 .. k-1
SplitsAre(k) == DOMAIN fs = {split_name(i) : i \in 0..(k - 1)}

DeliveredKeys == Flatten(delivered)

SourceKeys == UNION {Range(source[w]) : w \in DOMAIN source}

Running == pc \in {"fetch", "rotate", "open", "encode", "write"}

\* C1: the records of batch n are appended to the split file of index
\* n div save_every; a new file is opened exactly when n mod save_every = 0,
\* and the file open until then is closed before the new one is opened.
RotationStep ==
    /\ pc = "rotate" =>
          /\ pc' = "open" <=> n % save_every = 0
          /\ pc' = "encode" <=> n % save_every # 0
    /\ pc = "open" /\ pc' = "encode" => Len(handles') = Len(handles) + 1
    /\ Len(handles') # Len(handles) =>
          /\ pc = "open"
          /\ n % save_every = 0
          /\ \A h \in 1..Len(handles) : ~handles[h].open
          /\ handles' = Append(handles, [name |-> split_name(n \div save_every),
                                         open |-> TRUE, pending |-> <<>>])
          /\ file' = Len(handles')
    /\ pc = "write" /\ pc' = "fetch" =>
          /\ file # 0
          /\ handles[file].open
          /\ handles[file].name = split_name(n \div save_every)
          /\ KeysOf(batch) = delivered[n + 1]
          /\ Visible(file)' = Visible(file) \o ExpectedRecords(delivered[n + 1])
          /\ \A nm \in DOMAIN fs : nm # handles[file].name => fs'[nm] = fs[nm]

Rotation == [][RotationStep]_vars

\* save_every = 2 and the batches 0..4: split 0 holds the batches 0 and 1,
\* split 1 the batches 2 and 3, split 2 the batch 4
RotationWitness ==
    /\ pc = "done"
    /\ save_every = 2
    /\ Len(delivered) = 5
    /\ SplitsAre(3)
    /\ KeysIn(fs[split_name(0)]) = delivered[1] \o delivered[2]
    /\ KeysIn(fs[split_name(1)]) = delivered[3] \o delivered[4]
    /\ KeysIn(fs[split_name(2)]) = delivered[5]

\* every place (file, line) of the output directory
Places == UNION {{<<nm, i>> : i \in 1..Len(fs[nm])} : nm \in DOMAIN fs}

\* C2: in a run that ends by stream exhaustion, every item the encoder has
\* encoded is one record of one split file, and no record is anything else;
\* when nothing was skipped every input key appears exactly once.
ExactlyOnce ==
    pc = "done" =>
        /\ \A k \in Range(DeliveredKeys) :
              Cardinality({pl \in Places : fs[pl[1]][pl[2]].key = k}) = 1
        /\ \A pl \in Places :
              /\ fs[pl[1]][pl[2]].key \in Range(DeliveredKeys)
              /\ fs[pl[1]][pl[2]] = ExpectedRecord(fs[pl[1]][pl[2]].key)
        /\ skipped = {} => Range(DeliveredKeys) = SourceKeys

\* a run over five items ended by exhaustion and left several files
ExactlyOnceWitness ==
    /\ pc = "done"
    /\ Cardinality(SourceKeys) = 5
    /\ skipped = {}
    /\ Cardinality(DOMAIN fs) >= 3
    /\ Cardinality(Places) = 5

\* the keys of the worker w among the keys ks, in the order of ks
FromWorker(ks, w) == SelectSeq(ks, LAMBDA k : k \in Range(source[w]))

\* the keys the worker w has read and not dropped, in source order
ReadAndKept(w) ==
    SelectSeq(SubSeq(source[w], 1, Len(source[w]) - Len(upstream[w])),
              LAMBDA k : k \notin skipped)

\* C3: the split files, concatenated in increasing split index, hold the
\* records in the order the items left the loader, which is the order of
\* the source of each loader worker, also when items were skipped.
Ordering ==
    pc = "done" =>
        /\ SplitsAre(SplitCount(Len(delivered)))
        /\ KeysIn(Flatten([i \in 1..Cardinality(DOMAIN fs) |-> fs[split_name(i - 1)]]))
              = DeliveredKeys
        /\ \A w \in DOMAIN source : FromWorker(DeliveredKeys, w) = ReadAndKept(w)

\* a finished run with several files in which an item was skipped before
\* the last delivered one
OrderingWitness ==
    /\ pc = "done"
    /\ Cardinality(DOMAIN fs) >= 2
    /\ \E k \in skipped : \E j \in Range(DeliveredKeys) : j > k
    /\ \E k \in skipped : \E j \in Range(DeliveredKeys) : j < k

\* number of records of the batches lo+1 .. hi
RecordsOfBatches(lo, hi) == Len(BatchKeys(lo, hi))

\* C4 (as stated): after a run ended by exhaustion every split file but the
\* last holds exactly save_every x batch size records, the last between 1
\* and that many.
RecordCountsExact ==
    pc = "done" =>
        LET K == Cardinality(DOMAIN fs)
        IN  /\ SplitsAre(K)
            /\ \A i \in 0..(K - 1) :
                  IF i < K - 1
                  THEN Len(fs[split_name(i)]) = save_every * bs
                  ELSE Len(fs[split_name(i)]) \in 1..(save_every * bs)

\* C4 (amended): every split file but the last holds the records of exactly
\* save_every batches, the last those of 1 to save_every batches; a batch
\* holds 1 to batch size records; with a single loader process (the
\* streaming notebook) every file but the last holds save_every x batch
\* size records.
RecordCounts ==
    pc = "done" =>
        LET K == SplitCount(Len(delivered))
        IN  /\ SplitsAre(K)
            /\ \A j \in 1..Len(delivered) : Len(delivered[j]) \in 1..bs
            /\ \A i \in 0..(K - 1) :
                  /\ Len(fs[split_name(i)])
                        = RecordsOfBatches(i * save_every,
                                           Min((i + 1) * save_every, Len(delivered)))
                  /\ Len(fs[split_name(i)]) \in 1..(save_every * bs)
                  /\ notebook = "streaming" /\ i < K - 1 =>
                        Len(fs[split_name(i)]) = save_every * bs

\* 5 items, batch size 1, save_every 2: three files of 2, 2 and 1 records
RecordCountsWitness ==
    /\ pc = "done"
    /\ notebook = "streaming"
    /\ bs = 1
    /\ save_every = 2
    /\ Len(source[1]) = 5
    /\ SplitsAre(3)
    /\ Len(fs[split_name(0)]) = 2
    /\ Len(fs[split_name(1)]) = 2
    /\ Len(fs[split_name(2)]) = 1

\* C5: when the function is left, by exhaustion of the input or by an
\* exception, no file it opened is still open.
TerminalClose ==
    pc \in {"done", "failed"} => \A h \in 1..Len(handles) : ~handles[h].open

\* the split file of index i is complete: it holds its save_every batches
CompleteSplit(i) ==
    /\ handles[i + 1].name = split_name(i)
    /\ Len(delivered) >= (i + 1) * save_every
    /\ fs[split_name(i)] = ExpectedRecords(BatchKeys(i * save_every, (i + 1) * save_every))

\* the split file of index i holds, on disk, whole records only: the first
\* ones of the batches written to it so far
WholeRecords(i) ==
    /\ handles[i + 1].name = split_name(i)
    /\ IsPrefix(fs[split_name(i)], ExpectedRecords(BatchKeys(i * save_every, n)))

WriteFailureStep ==
    /\ cause = "" /\ cause' \in {"open", "write"} =>
          /\ pc' = "failed"
          /\ fs' = fs
          /\ handles' = handles
          /\ n' = n
          /\ \A h \in 1..Len(handles) :
                Range(KeysIn(Visible(h))) \subseteq Range(BatchKeys(0, n))
    /\ pc # "failed"

WriteFailureFatal == [][WriteFailureStep]_vars

\* the write of the third batch failed with records of earlier batches on disk
WriteFailureWitness ==
    /\ pc = "failed"
    /\ cause = "write"
    /\ n = 2
    /\ Cardinality(Places) >= 2

\* C8 (as stated): under the webdataset notebook's handler no failure on an
\* item, in whatever per-item stage, ends the sequence.
ItemLevelSkip == notebook = "webdataset" => cause \notin {"read", "transform"}

\* C8 (amended): under the webdataset notebook's handler a read failure on
\* an item does not end the sequence: the item is omitted and every item
\* read without failure is delivered, in order; a failure in decoding or
\* transforming an item (stages given no handler) ends the run.
ReadErrorSkip ==
    notebook = "webdataset" =>
        /\ cause # "read"
        /\ cause = "transform" => pc = "failed"
        /\ skipped \cap Range(DeliveredKeys \o KeysOf(cur)) = {}
        /\ \A w \in DOMAIN source : FromWorker(DeliveredKeys \o KeysOf(cur), w) = ReadAndKept(w)

\* a webdataset run ended by exhaustion after it skipped an item and wrote
\* a later one
ReadErrorSkipWitness ==
    /\ notebook = "webdataset"
    /\ pc = "done"
    /\ \E k \in skipped : \E pl \in Places : fs[pl[1]][pl[2]].key > k

OpenHandles == {h \in 1..Len(handles) : handles[h].open}

\* the handle of the split file of index i was opened as the (i+1)-th
HandleOfSplit(i) == i + 1

SingleHandleState ==
    /\ Cardinality(OpenHandles) <= 1
    /\ OpenHandles \subseteq {file}
    /\ \A h \in 1..Len(handles) : handles[h].name = split_name(h - 1)
    /\ pc \in {"encode", "write"} =>
          /\ OpenHandles = {HandleOfSplit(n \div save_every)}
          /\ handles[file].name = split_name(n \div save_every)
    /\ \A h \in 1..(Len(handles) - 1) : ~handles[h].open

SingleHandleStep ==
    \A h \in 1..Len(handles) :
        ~handles[h].open =>
            /\ ~handles'[h].open
            /\ handles'[h] = handles[h]
            /\ fs'[handles[h].name] = fs[handles[h].name]

\* C12: at most one output file is open at any time; while batch n is
\* encoded and appended the open file is split n div save_every; every split
\* file of a smaller index is closed, and a closed file is never written to
\* (or reopened) again.
SingleHandle == []SingleHandleState /\ [][SingleHandleStep]_vars

\* batch 3 is being appended with save_every = 2: split 1 is open, split 0
\* is closed and holds its two batches
SingleHandleWitness ==
    /\ pc = "write"
    /\ n = 3
    /\ save_every = 2
    /\ Len(handles) = 2
    /\ OpenHandles = {2}
    /\ handles[2].name = split_name(1)
    /\ Len(fs[split_name(0)]) >= 2

\* what the caller of encode_captioned_dataset sees of a run that ended
EndOfRun == [pc |-> pc, cause |-> cause, files |-> fs, opened |-> Len(handles),
             batches |-> n, dir |-> output_dir]

\* the end of a run over an empty source
EmptyRunEnd == [pc |-> "done", cause |-> "", files |-> <<>>, opened |-> 0,
                batches |-> 0, dir |-> TRUE]

SourceConsumed == \A w \in DOMAIN upstream : upstream[w] = <<>>

\* C13 (as stated): under the webdataset notebook's handler, when the
\* transform fails on every item the loader tries, the loader consumes the
\* whole source without producing an item, and the driver is told.
StallAsStated ==
    notebook = "webdataset" /\ cause = "transform" /\ skipped = {} /\ delivered = <<>>
        /\ cur = <<>> =>
            SourceConsumed /\ EndOfRun # EmptyRunEnd

\* C13 (amended): under the webdataset notebook's handler a failing
\* transform ends the run at the first item it fails on, with the exception
\* reaching the driver and that item not consumed; only read failures are
\* skipped, and when every item is skipped the loader consumes the whole
\* source without producing a batch and the run ends as a run over an empty
\* source does.
Stall ==
    notebook = "webdataset" =>
        /\ cause = "transform" =>
              /\ pc = "failed"
              /\ turn \in live /\ upstream[turn] # <<>>
              /\ Head(upstream[turn]) \notin skipped
              /\ EndOfRun # EmptyRunEnd
        /\ pc = "done" /\ skipped = SourceKeys =>
              /\ SourceConsumed
              /\ delivered = <<>>
              /\ EndOfRun = EmptyRunEnd

\* every one of three items was skipped and the run has ended
StallWitness ==
    /\ notebook = "webdataset"
    /\ pc = "done"
    /\ Cardinality(SourceKeys) = 3
    /\ skipped = SourceKeys
    /\ SourceConsumed

\* C14: the output directory exists once the function has started; as long
\* as the loader has yielded no batch the writer has no file (file is None),
\* no split file exists and no record is written, so a run whose loader
\* yields nothing ends with the directory and nothing in it.
EmptyInput ==
    /\ pc # "start" => output_dir
    /\ delivered = <<>> =>
          /\ file = 0
          /\ handles = <<>>
          /\ fs = <<>>
          /\ n = 0
    /\ fs # <<>> => Len(delivered) >= 1
    /\ pc = "done" /\ delivered = <<>> => EndOfRun = EmptyRunEnd

\* a run of the streaming notebook over an empty source has ended
EmptyInputWitness ==
    /\ pc = "done"
    /\ notebook = "streaming"
    /\ SourceKeys = {}
    /\ delivered = <<>>
    /\ output_dir
    /\ file = 0
    /\ DOMAIN fs = {}

\* no record of the batch with the keys ks is in a file or in a buffer
NoRecordOf(ks) ==
    /\ \A pl \in Places : fs[pl[1]][pl[2]].key \notin Range(ks)
    /\ \A h \in 1..Len(handles) : Range(KeysIn(handles[h].pending)) \cap Range(ks) = {}

\* the split file of batch n exists, empty, and is the only open one
FreshSplit ==
    /\ file = Len(handles)
    /\ handles[file].name = split_name(n \div save_every)
    /\ handles[file].open
    /\ handles[file].pending = <<>>
    /\ split_name(n \div save_every) \in DOMAIN fs
    /\ fs[split_name(n \div save_every)] = <<>>
    /\ \A h \in 1..(Len(handles) - 1) : ~handles[h].open

\* C15: when batch n with n mod save_every = 0 is about to be encoded, the
\* previous file is closed and split n div save_every exists and is empty;
\* an encoder failure ends the run, on such a batch with that split file
\* present and empty, and on any batch with no record of the batch in a file.
RotationBeforeEncode ==
    /\ pc = "encode" /\ n % save_every = 0 => FreshSplit
    /\ pc = "encode" => NoRecordOf(KeysOf(batch))
    /\ cause = "encode" =>
          /\ pc = "failed"
          /\ Len(delivered) = n + 1
          /\ NoRecordOf(delivered[n + 1])
          /\ n % save_every = 0 => FreshSplit

\* the encoder failed on the final batch, batch 2 with save_every = 2, whose
\* size the device count does not divide: split 1 is there, empty, and split
\* 0 holds the batches 0 and 1
RotationBeforeEncodeWitness ==
    /\ cause = "encode"
    /\ n = 2
    /\ save_every = 2
    /\ ~CanShard(batch, device_count)
    /\ SourceConsumed
    /\ DOMAIN fs = {split_name(0), split_name(1)}
    /\ fs[split_name(1)] = <<>>
    /\ Len(fs[split_name(0)]) >= 2

(***************************************************************************)
(* The pure functions, applied to inputs drawn from bounded sets.  The run *)
(* itself stays where it starts.                                           *)
(***************************************************************************)
RunIdle ==
    /\ notebook = "streaming"
    /\ save_every = 1
    /\ batch_size = 1
    /\ device_count = 1
    /\ output_dir = FALSE
    /\ source = <<<<>>>>
    /\ upstream = source
    /\ live = {1}
    /\ turn = 1
    /\ cur = <<>>
    /\ batch = <<>>
    /\ n = 0
    /\ encoded = <<>>
    /\ file = 0
    /\ handles = <<>>
    /\ fs = <<>>
    /\ pc = "start"
    /\ cause = ""
    /\ delivered = <<>>
    /\ skipped = {}

\* res with the entry name |-> value added
WithResult(name, value) ==
    [x \in (DOMAIN res) \cup {name} |-> IF x = name THEN value ELSE res[x]]

TitleChars == {" ", "a", ".", "!", "?"}

DescriptionChars == {" ", "a"}

InitCaption ==
    /\ RunIdle
    /\ arg \in [title : SeqsUpTo(TitleChars, MaxStrLen),
                description : SeqsUpTo(DescriptionChars, MaxStrLen)]
    /\ res = <<>>

\* streaming notebook: create_caption(item['title_clean'], item['description_clean'])
CaptionStreaming ==
    /\ "streaming" \notin DOMAIN res
    /\ res' = WithResult("streaming", create_caption(arg.title, arg.description))
    /\ UNCHANGED <<runvars, arg>>

\* webdataset notebook: json=create_caption
CaptionWebdataset ==
    /\ "webdataset" \notin DOMAIN res
    /\ res' = WithResult("webdataset",
                         create_caption_item([title_clean |-> arg.title,
                                              description_clean |-> arg.description]))
    /\ UNCHANGED <<runvars, arg>>

NextCaption == CaptionStreaming \/ CaptionWebdataset

SpecCaption == InitCaption /\ [][NextCaption]_vars

\* token values the encoder may produce: indices into the codebook
TokenValues == {0, 9, 10, CodebookSize - 1}

InitEncoding ==
    /\ RunIdle
    /\ arg \in SeqsUpTo(TokenValues, MaxTokLen)
               \cup {[i \in 1..TokenLength |-> v] : v \in TokenValues}
    /\ res = <<>>

\* the writer renders the token sequence
Render ==
    /\ "encoding" \notin DOMAIN res
    /\ res' = WithResult("encoding", array2string(arg))
    /\ UNCHANGED <<runvars, arg>>

\* a reader parses the `encoding` field
Decode ==
    /\ "encoding" \in DOMAIN res
    /\ "decoded" \notin DOMAIN res
    /\ res' = WithResult("decoded", parse_encoding(res.encoding))
    /\ UNCHANGED <<runvars, arg>>

NextEncoding == Render \/ Decode

SpecEncoding == InitEncoding /\ [][NextEncoding]_vars

(***************************************************************************)
(* Two writers side by side: the loop body of encode_captioned_dataset run *)
(* on two streams of the same number of batches and different content.     *)
(***************************************************************************)
MaxPairBatches == 3

\* a writer before its first batch:  file = None, n = 0
NewWriter == [n |-> 0, file |-> 0, handles |-> <<>>, fs |-> <<>>, names |-> <<>>]

\* one pass of the loop body for the batch b; names records the file the
\* batch went to
WriterStep(w, b, se) ==
    LET io0 == [handles |-> w.handles, fs |-> w.fs]
        rot == NeedsRotation(w.n, se)
        io1 == IF rot
               THEN FileOpen(CloseCurrent(io0, w.file), split_name(SplitNum(w.n, se)))
               ELSE io0
        f1 == IF rot THEN Len(w.handles) + 1 ELSE w.file
        encoded_as_string == [i \in 1..Len(b) |-> array2string(model_encode(b[i].key))]
        io2 == FileWrite(io1, f1, Records(KeysOf(b), CaptionsOf(b), encoded_as_string))
    IN  [n |-> w.n + 1, file |-> f1, handles |-> io2.handles, fs |-> io2.fs,
         names |-> Append(w.names, io1.handles[f1].name)]

\* a stream of len batches of the sizes sz, its keys counted from base
PairStream(sz, base) ==
    [j \in 1..Len(sz) |-> [i \in 1..sz[j] |-> Prepare("streaming", base + 2 * MaxBatchSize * j + i)]]

InitPair ==
    /\ RunIdle
    /\ \E len \in 0..MaxPairBatches, se \in 1..MaxSaveEvery :
          \E szl \in [1..len -> 1..MaxBatchSize], szr \in [1..len -> 1..MaxBatchSize] :
              arg = [save_every |-> se, left |-> PairStream(szl, 0),
                     right |-> PairStream(szr, 1)]
    /\ res = [left |-> NewWriter, right |-> NewWriter, at |-> "none"]

\* the for statement of one writer binds its next batch
PairFetch ==
    /\ res.at = "none"
    /\ LET side == IF res.left.n = res.right.n THEN "left" ELSE "right"
       IN  /\ res[side].n < Len(arg[side])
           /\ batch' = arg[side][res[side].n + 1]
           /\ res' = [res EXCEPT !.at = side]
    /\ UNCHANGED <<notebook, save_every, batch_size, device_count, output_dir, source,
                   upstream, live, turn, cur, n, encoded, file, handles, fs, pc, cause,
                   delivered, skipped, arg>>

\* that writer runs the loop body on the batch
PairWrite ==
    /\ res.at # "none"
    /\ res' = [res EXCEPT ![res.at] = WriterStep(@, batch, arg.save_every), !.at = "none"]
    /\ UNCHANGED <<runvars, arg>>

NextPair == PairFetch \/ PairWrite

SpecPair == InitPair /\ [][NextPair]_vars

\* the names of the files a writer has opened, in order
OpenedNames(w) == [h \in 1..Len(w.handles) |-> w.handles[h].name]

\* C11: two runs with the same save_every and the same number of batches
\* open the same sequence of file names and put batch n into the same file,
\* whatever the keys, captions, token values and sizes of their batches.
PairBoundaries ==
    res.at = "none" /\ res.left.n = res.right.n =>
        /\ OpenedNames(res.left) = OpenedNames(res.right)
        /\ res.left.names = res.right.names
        /\ DOMAIN res.left.fs = DOMAIN res.right.fs

\* both writers have written three batches of different sizes and content
\* into the same two files
PairWitness ==
    /\ res.at = "none"
    /\ res.left.n = 3 /\ res.right.n = 3
    /\ arg.save_every = 2
    /\ Len(arg.left[1]) # Len(arg.right[1])
    /\ Len(arg.left[3]) # Len(arg.right[3])
    /\ KeysOf(arg.left[1]) # KeysOf(arg.right[1])
    /\ OpenedNames(res.left) = <<split_name(0), split_name(1)>>
    /\ res.right.names = <<split_name(0), split_name(0), split_name(1)>>

(***************************************************************************)
(* Properties of the pure functions.                                       *)
(***************************************************************************)
\* t is s without the white space at its two ends (stated without strip)
IsTrimOf(t, s) ==
    \E i \in 0..Len(s), j \in 0..Len(s) :
        /\ i + j <= Len(s)
        /\ t = SubSeq(s, i + 1, Len(s) - j)
        /\ \A k \in 1..i : s[k] \in Whitespace
        /\ \A k \in (Len(s) - j + 1)..Len(s) : s[k] \in Whitespace
        /\ t = <<>> \/ (t[1] \notin Whitespace /\ t[Len(t)] \notin Whitespace)

Pieces(s) == {SubSeq(s, i, j) : i \in 1..(Len(s) + 1), j \in 0..Len(s)}

\* C9: for all title and description, each notebook's create_caption returns
\* T + ' ' + D, where D is the trimmed description and T the trimmed title
\* with one '.' appended iff it is non-empty and does not end in '.', '!' or
\* '?'; exactly one space separates T and D; both notebooks agree.
CaptionContract ==
    /\ \A nb \in DOMAIN res :
          \E T \in Pieces(arg.title), D \in Pieces(arg.description) :
              /\ IsTrimOf(T, arg.title)
              /\ IsTrimOf(D, arg.description)
              /\ LET dot == T # <<>> /\ T[Len(T)] \notin {".", "!", "?"}
                     TT == IF dot THEN Append(T, ".") ELSE T
                 IN  /\ res[nb] = TT \o <<" ">> \o D
                     /\ Len(res[nb]) = Len(TT) + 1 + Len(D)
                     /\ res[nb][Len(TT) + 1] = " "
                     /\ TT = <<>> \/ TT[Len(TT)] # " "
                     /\ D = <<>> \/ D[1] # " "
    /\ DOMAIN res = {"streaming", "webdataset"} => res["streaming"] = res["webdataset"]

\* both notebooks have built the caption of ("a!", ""): "a! "
CaptionWitness ==
    /\ DOMAIN res = {"streaming", "webdataset"}
    /\ arg.title = <<"a", "!">>
    /\ arg.description = <<>>
    /\ res["streaming"] = <<"a", "!", " ">>

\* C10: parsing the `encoding` string of a token sequence gives back exactly
\* that sequence: same length, values and order, nothing elided.
EncodingRoundTrip ==
    "decoded" \in DOMAIN res =>
        /\ res["decoded"].ok
        /\ res["decoded"].value = arg
        /\ \A i \in 1..Len(res["encoding"]) : res["encoding"][i] # "."

\* a sequence of the model's full token length, of the largest index, was
\* rendered and read back
EncodingWitness ==
    /\ "decoded" \in DOMAIN res
    /\ Len(arg) = TokenLength
    /\ arg[1] = CodebookSize - 1
    /\ Len(res["decoded"].value) = TokenLength

====
